---- MODULE Spec2Model ----
(***************************************************************************)
(* Model of antismash/detection/sideloader/general.py:                     *)
(* load_single_record_annotations, one call of it as a state machine, and  *)
(* of antismash/modules/siderophores/siderophore_analysis.py:              *)
(* run_siderophore_analysis, run on a record that carries the              *)
(* proto-clusters of a returned result.                                    *)
(*                                                                         *)
(* An Optional[T] value is modelled as a set holding at most one T:        *)
(* {} is None.  Intervals are half-open, 0-based.                          *)
(***************************************************************************)
EXTENDS Integers, Sequences, FiniteSets, TLC

VARIABLES
    record,              \* the target Record (length, circularity, CDS features, names)
    annotation_files,    \* the annotation files, in the order given (parsed contents)
    manual,              \* Optional[SideloadSimple]
    cds_markers,         \* the CDS marker names, in the order given
    cds_marker_padding,  \* padding on each side of a marker
    subregions,          \* List[SubRegionAnnotation] built so far
    protoclusters,       \* List[ProtoclusterAnnotation] built so far
    missing,             \* the set of marker names not found
    warnings,            \* the logging.warning calls made, each the set of names it lists
    fi,                  \* number of annotation files fully processed
    mi,                  \* number of markers processed
    vi,                  \* number of areas whose CDS content was queried and found non-empty
    pc,                  \* position in the function
    err,                 \* type of the exception that left the function, "" if none
    errMsg,              \* leading text of that exception's message
    errArea,             \* Optional: the area the exception is about
    result,              \* Optional[SideloadedResults]: the value returned
    results_class,       \* the class the name SiderophoreAnalysisResults is bound to
    hmmer_results_list,  \* run_siderophore_analysis: the HmmerResults of the scans
    predictions,         \* run_siderophore_analysis: the SiderophorePredictions
    hmmer_results,       \* Optional: the loop's local variable, None while unbound
    ci,                  \* number of proto-clusters the loop has visited
    apc,                 \* position in run_siderophore_analysis
    aerr,                \* type of the exception that left it, "" if none
    results              \* Optional[SiderophoreAnalysisResults]: the value returned

\* The state of run_siderophore_analysis.
analysis == <<results_class, hmmer_results_list, predictions, hmmer_results, ci, apc,
              aerr, results>>

vars == <<record, annotation_files, manual, cds_markers, cds_marker_padding,
          subregions, protoclusters, missing, warnings, fi, mi, vi, pc,
          err, errMsg, errArea, result, analysis>>

inputs == <<record, annotation_files, manual, cds_markers, cds_marker_padding>>

(***************************************************************************)
(* Bounds of the model                                                     *)
(***************************************************************************)
RecLen == 4
MaxFiles == 2
MaxMarkers == 2

DefaultPadding == 20000

None == {}
Some(x) == {x}
Get(opt) == CHOOSE x \in opt : TRUE

Max(a, b) == IF a >= b THEN a ELSE b
Min(a, b) == IF a <= b THEN a ELSE b

SeqsUpTo(S, n) == UNION {[1..k -> S] : k \in 0..n}

(***************************************************************************)
(* The record (antismash.common.secmet.Record), as far as the function     *)
(* uses it.                                                                *)
(***************************************************************************)
RecordNames == {"rec", "alias"}

\* Where the CDS "geneA" can lie; "geneB" lies at the start of the record.
GenePositions == {p \in (0..RecLen) \X (0..RecLen) : p[1] < p[2]}

Records ==
    {[id |-> "rec", names |-> RecordNames, len |-> RecLen, circular |-> c,
      cds |-> [g \in {"geneA", "geneB"} |->
                 IF g = "geneA" THEN [start |-> p[1], end |-> p[2]]
                                ELSE [start |-> 0, end |-> 1]]] :
        c \in BOOLEAN, p \in GenePositions}

len(rec) == rec.len
is_circular(rec) == rec.circular
has_name(rec, name) == name \in rec.names
has_cds(rec, name) == name \in DOMAIN rec.cds
get_cds_by_name(rec, name) == rec.cds[name]

\* The parts of an area's location: one part, or two when the area crosses
\* the origin of a circular record.
build_location(area) ==
    IF area.circular_origin # None /\ area.end < area.start
    THEN {[start |-> area.start, end |-> Get(area.circular_origin)],
          [start |-> 0, end |-> area.end]}
    ELSE {[start |-> area.start, end |-> area.end]}

get_cds_features_within_location(rec, location) ==
    {g \in DOMAIN rec.cds :
        \E part \in location :
            part.start <= rec.cds[g].start /\ rec.cds[g].end <= part.end}

(***************************************************************************)
(* sideloader.data_structures: the annotations                             *)
(***************************************************************************)
\* The constructors raise ValueError when this does not hold.
ValidBounds(start, end, circular_origin) ==
    circular_origin # None \/ start < end

SubRegionAnnotation(start, end, label, tool, circular_origin) ==
    [start |-> start, end |-> end, label |-> label, tool |-> tool,
     circular_origin |-> circular_origin]

ProtoclusterAnnotation(start, end, product, tool, circular_origin) ==
    [start |-> start, end |-> end, product |-> product, tool |-> tool,
     circular_origin |-> circular_origin]

ManualTool == "manual"

(***************************************************************************)
(* The annotation files, as load_validated_json returns them.  valid =     *)
(* FALSE is a file the schema rejects.                                     *)
(***************************************************************************)
Sub(start, end, label) == [start |-> start, end |-> end, label |-> label]
Proto(start, end, product) == [start |-> start, end |-> end, product |-> product]
Entry(name, subs, protos) == [name |-> name, subregions |-> subs, protoclusters |-> protos]
File(tool, records) == [valid |-> TRUE, tool |-> tool, records |-> records]

FileA == File("toolA", <<Entry("rec", <<Sub(0, RecLen, "a1")>>, <<>>)>>)
FileB == File("toolB", <<Entry("alias", <<Sub(1, 2, "b1"), Sub(0, 2, "b2")>>,
                                       <<Proto(0, RecLen, "NI-siderophore")>>)>>)
FileC == File("toolC", <<Entry("other", <<Sub(3, 1, "c0")>>, <<Proto(2, 2, "T1PKS")>>),
                         Entry("rec", <<Sub(0, RecLen + 1, "c1")>>, <<Proto(1, 2, "T1PKS")>>)>>)
FileD == File("toolD", <<Entry("rec", <<Sub(RecLen - 1, 1, "d1")>>, <<>>)>>)
FileE == File("toolE", <<Entry("rec", <<Sub(0, 3, "e1")>>, <<Proto(0, 2, "NI-siderophore")>>),
                         Entry("alias", <<Sub(2, RecLen, "e2")>>,
                                        <<Proto(RecLen - 1, 1, "terpene"), Proto(0, 1, "NRPS")>>)>>)
FileF == File("toolF", <<Entry("other", <<Sub(2, 1, "f0")>>, <<Proto(0, 0, "NRPS")>>)>>)
FileG == File("toolG", <<Entry("alias", <<Sub(0, 1, "g1")>>, <<>>)>>)
FileBad == [valid |-> FALSE, tool |-> "toolX", records |-> <<>>]

FileSet == {FileA, FileB, FileC, FileD, FileE, FileF, FileG, FileBad}

MarkerNames == {"geneA", "geneB", "nope", "nada"}

SideloadSimple(accession, start, end) == [accession |-> accession, start |-> start, end |-> end]

\* The calls explored: each input is varied widely with the others left at
\* their defaults, and all three are varied together over a few values.
SourceInputs ==
    [files : SeqsUpTo(FileSet, MaxFiles), manual : {None}, markers : {<<>>},
     padding : {DefaultPadding}]

ManualInputs ==
    [files : {<<>>},
     manual : {Some(SideloadSimple(a, s, e)) :
                  a \in {"rec", "other"}, s \in (0 - 1)..RecLen, e \in 0..(RecLen + 1)},
     markers : {<<>>}, padding : {DefaultPadding}]

MarkerInputs ==
    [files : {<<>>}, manual : {None},
     markers : SeqsUpTo(MarkerNames, MaxMarkers) \ {<<>>},
     padding : 0..(RecLen + 1)]

MixedInputs ==
    [files : {<<FileB>>, <<FileC>>, <<FileE>>},
     manual : {Some(SideloadSimple("alias", 0, RecLen + 1)), Some(SideloadSimple("rec", 1, 2))},
     markers : {<<"geneA">>, <<"nope">>, <<"geneB", "geneA">>},
     padding : {1}]

Inputs == SourceInputs \cup ManualInputs \cup MarkerInputs \cup MixedInputs

Init ==
    /\ \E rec \in Records, args \in Inputs :
          /\ record = rec
          /\ annotation_files = args.files
          /\ manual = args.manual
          /\ cds_markers = args.markers
          /\ cds_marker_padding = args.padding
    /\ subregions = <<>>
    /\ protoclusters = <<>>
    /\ missing = {}
    /\ warnings = <<>>
    /\ fi = 0
    /\ mi = 0
    /\ vi = 0
    /\ pc = "sources"
    /\ err = ""
    /\ errMsg = ""
    /\ errArea = None
    /\ result = None
    /\ results_class = ""
    /\ hmmer_results_list = <<>>
    /\ predictions = <<>>
    /\ hmmer_results = None
    /\ ci = 0
    /\ apc = "idle"
    /\ aerr = ""
    /\ results = None

\* Mutant: the origin is passed for every record, circular or not.
circular_origin_Always == Some(len(record))

\* circular_origin = len(record) if record.is_circular() else None
circular_origin == IF is_circular(record) THEN Some(len(record)) ELSE None

\* Leaving the function by an exception.
Raise(type, msg, area) ==
    /\ pc' = "error"
    /\ err' = type
    /\ errMsg' = msg
    /\ errArea' = area
    /\ result' = None

NoRaise == UNCHANGED <<err, errMsg, errArea, result>>

(***************************************************************************)
(* Lines 46-63: one annotation file                                        *)
(***************************************************************************)
\* Mutant: each converted subregion is inserted at the front of the list.
RECURSIVE LoadSubregions_Prepend(_, _, _)
LoadSubregions_Prepend(areas, tool, acc) ==
    IF areas = <<>> \/ ~acc.ok THEN acc
    ELSE LET area == Head(areas) IN
         IF ValidBounds(area.start, area.end, circular_origin)
         THEN LoadSubregions_Prepend(Tail(areas), tool,
                  [acc EXCEPT !.subregions =
                      <<SubRegionAnnotation(area.start, area.end, area.label, tool,
                                            circular_origin)>> \o @])
         ELSE [acc EXCEPT !.ok = FALSE, !.msg = "sideloaded subregion invalid"]

\* for area in json_record.get("subregions", []): convert and append each,
\* stopping at the first one whose construction raises ValueError.
RECURSIVE LoadSubregions(_, _, _)
LoadSubregions(areas, tool, acc) ==
    IF areas = <<>> \/ ~acc.ok THEN acc
    ELSE LET area == Head(areas) IN
         IF ValidBounds(area.start, area.end, circular_origin)
         THEN LoadSubregions(Tail(areas), tool,
                  [acc EXCEPT !.subregions = Append(@,
                      SubRegionAnnotation(area.start, area.end, area.label, tool,
                                          circular_origin))])
         ELSE [acc EXCEPT !.ok = FALSE, !.msg = "sideloaded subregion invalid"]

\* for area in json_record.get("protoclusters", []): likewise.
RECURSIVE LoadProtoclusters(_, _, _)
LoadProtoclusters(areas, tool, acc) ==
    IF areas = <<>> \/ ~acc.ok THEN acc
    ELSE LET area == Head(areas) IN
         IF ValidBounds(area.start, area.end, circular_origin)
         THEN LoadProtoclusters(Tail(areas), tool,
                  [acc EXCEPT !.protoclusters = Append(@,
                      ProtoclusterAnnotation(area.start, area.end, area.product, tool,
                                             circular_origin))])
         ELSE [acc EXCEPT !.ok = FALSE, !.msg = "sideloaded protocluster invalid"]

\* A record entry whose name the record has: its subregions, then its
\* protoclusters.
LoadEntry(json_record, tool, acc) ==
    LoadProtoclusters(json_record.protoclusters, tool,
                      LoadSubregions(json_record.subregions, tool, acc))

\* Mutant: entries for other records are loaded too.
RECURSIVE LoadRecords_NoSkip(_, _, _)
LoadRecords_NoSkip(json_records, tool, acc) ==
    IF json_records = <<>> \/ ~acc.ok THEN acc
    ELSE LoadRecords_NoSkip(Tail(json_records), tool,
                            LoadEntry(Head(json_records), tool, acc))

\* for json_record in raw["records"]: entries for other records are skipped.
RECURSIVE LoadRecords(_, _, _)
LoadRecords(json_records, tool, acc) ==
    IF json_records = <<>> \/ ~acc.ok THEN acc
    ELSE LET json_record == Head(json_records) IN
         IF ~has_name(record, json_record.name)
         THEN LoadRecords(Tail(json_records), tool, acc)
         ELSE LoadRecords(Tail(json_records), tool, LoadEntry(json_record, tool, acc))

\* One iteration of "for annotations_file in annotation_files".
LoadFile ==
    /\ pc = "sources"
    /\ fi < Len(annotation_files)
    /\ LET raw == annotation_files[fi + 1] IN
       IF ~raw.valid
       THEN /\ Raise("AntismashInputError", "invalid sideload annotation file", None)
            /\ UNCHANGED <<subregions, protoclusters, fi>>
       ELSE LET acc == LoadRecords(raw.records, raw.tool,
                           [ok |-> TRUE, msg |-> "", subregions |-> subregions,
                            protoclusters |-> protoclusters]) IN
            /\ subregions' = acc.subregions
            /\ protoclusters' = acc.protoclusters
            /\ IF acc.ok
               THEN /\ fi' = fi + 1
                    /\ pc' = "sources"
                    /\ NoRaise
               ELSE /\ Raise("AntismashInputError", acc.msg, None)
                    /\ UNCHANGED fi
    /\ UNCHANGED <<analysis, inputs, missing, warnings, mi, vi>>

(***************************************************************************)
(* Lines 65-69: the manually specified area                                *)
(***************************************************************************)
\* Mutant: the end of the manual area is not clamped.
ManualSubregion_NoClamp(area, rec, origin) ==
    SubRegionAnnotation(area.start, area.end, "", ManualTool, origin)

\* Lines 67-68: the subregion of the manual area; its end is clamped to the
\* length of the record's sequence.
ManualSubregion(area, rec, origin) ==
    SubRegionAnnotation(area.start, Min(area.end, len(rec)), "", ManualTool, origin)

ManualRegion ==
    /\ pc = "sources"
    /\ fi = Len(annotation_files)
    /\ IF manual # None /\ has_name(record, Get(manual).accession)
       THEN LET subregion == ManualSubregion(Get(manual), record, circular_origin) IN
            IF ValidBounds(subregion.start, subregion.end, subregion.circular_origin)
            THEN /\ subregions' = Append(subregions, subregion)
                 /\ pc' = "markers"
                 /\ NoRaise
            ELSE /\ Raise("ValueError", "invalid area", None)
                 /\ UNCHANGED subregions
       ELSE /\ pc' = "markers"
            /\ NoRaise
            /\ UNCHANGED subregions
    /\ UNCHANGED <<analysis, inputs, protoclusters, missing, warnings, fi, mi, vi>>

(***************************************************************************)
(* Lines 71-91: subregions around the CDS markers                          *)
(***************************************************************************)
\* Mutant: on a circular record the end is not taken modulo the length.
MarkerSubregion_NoEndModulo(cds, name, padding, rec) ==
    LET start == cds.start - padding
        end == cds.end + padding
    IN IF is_circular(rec)
       THEN SubRegionAnnotation((start + len(rec)) % len(rec), end,
                                name, ManualTool, Some(len(rec)))
       ELSE SubRegionAnnotation(Max(0, start), Min(end, len(rec)),
                                name, ManualTool, None)

\* Mutant: the subregion is not labelled with the marker's name.
MarkerSubregion_NoLabel(cds, name, padding, rec) ==
    LET start == cds.start - padding
        end == cds.end + padding
    IN IF is_circular(rec)
       THEN SubRegionAnnotation((start + len(rec)) % len(rec), end % len(rec),
                                "", ManualTool, Some(len(rec)))
       ELSE SubRegionAnnotation(Max(0, start), Min(end, len(rec)),
                                "", ManualTool, None)

\* Lines 79-88: the padded window around a CDS, as a subregion.
MarkerSubregion(cds, name, padding, rec) ==
    LET start == cds.start - padding
        end == cds.end + padding
    IN IF is_circular(rec)
       THEN SubRegionAnnotation((start + len(rec)) % len(rec), end % len(rec),
                                name, ManualTool, Some(len(rec)))
       ELSE SubRegionAnnotation(Max(0, start), Min(end, len(rec)),
                                name, ManualTool, None)

\* One iteration of "for name in cds_markers".
Marker ==
    /\ pc = "markers"
    /\ mi < Len(cds_markers)
    /\ LET name == cds_markers[mi + 1] IN
       IF ~has_cds(record, name)
       THEN /\ missing' = missing \cup {name}
            /\ pc' = "markers"
            /\ NoRaise
            /\ UNCHANGED subregions
       ELSE LET subregion == MarkerSubregion(get_cds_by_name(record, name), name,
                                             cds_marker_padding, record) IN
            IF ValidBounds(subregion.start, subregion.end, subregion.circular_origin)
            THEN /\ subregions' = Append(subregions, subregion)
                 /\ pc' = "markers"
                 /\ NoRaise
                 /\ UNCHANGED missing
            ELSE /\ Raise("ValueError", "invalid area", None)
                 /\ UNCHANGED <<subregions, missing>>
    /\ mi' = mi + 1
    /\ UNCHANGED <<analysis, inputs, protoclusters, warnings, fi, vi>>

\* Mutant: the warning is made whenever markers were given.
MarkersDone_AlwaysWarn ==
    /\ pc = "markers"
    /\ mi = Len(cds_markers)
    /\ warnings' = IF cds_markers # <<>> THEN Append(warnings, missing) ELSE warnings
    /\ pc' = "validate"
    /\ NoRaise
    /\ UNCHANGED <<analysis, inputs, subregions, protoclusters, missing, fi, mi, vi>>

\* The end of the marker loop: the warning, if any name was missing.
MarkersDone ==
    /\ pc = "markers"
    /\ mi = Len(cds_markers)
    /\ warnings' = IF cds_markers # <<>> /\ missing # {}
                   THEN Append(warnings, missing)
                   ELSE warnings
    /\ pc' = "validate"
    /\ NoRaise
    /\ UNCHANGED <<analysis, inputs, subregions, protoclusters, missing, fi, mi, vi>>

(***************************************************************************)
(* Lines 93-97: every area must contain a CDS                              *)
(***************************************************************************)
\* Mutant: the sub-regions are checked before the proto-clusters.
Chain_SubregionsFirst(protos, subs) == subs \o protos

\* Mutant: only the sub-regions are checked.
Chain_SubregionsOnly(protos, subs) == subs

\* itertools.chain(protoclusters, subregions)
Chain(protos, subs) == protos \o subs

\* One iteration of "for area in itertools.chain(...)".
Validate ==
    /\ pc = "validate"
    /\ vi < Len(Chain(protoclusters, subregions))
    /\ LET area == Chain(protoclusters, subregions)[vi + 1] IN
       IF get_cds_features_within_location(record, build_location(area)) = {}
       THEN /\ Raise("AntismashInputError",
                     "sideloaded area contains no complete CDS features", Some(area))
            /\ UNCHANGED vi
       ELSE /\ vi' = vi + 1
            /\ pc' = "validate"
            /\ NoRaise
    /\ UNCHANGED <<analysis, inputs, subregions, protoclusters, missing, warnings, fi, mi>>

SideloadedResults(record_id, subs, protos) ==
    [record_id |-> record_id, subregions |-> subs, protoclusters |-> protos]

Return ==
    /\ pc = "validate"
    /\ vi = Len(Chain(protoclusters, subregions))
    /\ result' = Some(SideloadedResults(record.id, subregions, protoclusters))
    /\ pc' = "done"
    /\ UNCHANGED <<analysis, inputs, subregions, protoclusters, missing, warnings, fi, mi, vi,
                   err, errMsg, errArea>>

Next == LoadFile \/ ManualRegion \/ Marker \/ MarkersDone \/ Validate \/ Return

Spec == Init /\ [][Next]_vars

(***************************************************************************)
(* siderophore_analysis.py: run_siderophore_analysis(record), on a record  *)
(* to which the proto-clusters of a returned result have been added.       *)
(***************************************************************************)
\* record.get_protoclusters()
get_protoclusters == Get(result).protoclusters

\* The name SiderophoreAnalysisResults of siderophore_analysis.py is imported
\* from the package, whose __init__ imports siderophore_analysis before it
\* defines its own class of that name; the class a call finds under the name
\* is the package's or the one of siderophore_classes.py.
ResultsClasses == {"siderophores.SiderophoreAnalysisResults",
                   "siderophore_classes.SiderophoreAnalysisResults"}

\* Only the class of siderophore_classes.py defines from_hmmer_results.
HasFromHmmerResults(class) == class = "siderophore_classes.SiderophoreAnalysisResults"

\* The hits a scan of one proto-cluster can report, by domain.
HitLists == {<<>>, <<"Citrate_synth">>, <<"IucA_IucC", "Dab-synth">>}

\* hmmer.run_hmmer(record, cds, max_evalue=0.1, min_score=10, database, tool)
run_hmmer(rec, hits) ==
    [record_id |-> rec.id, evalue |-> "0.1", score |-> 10, database |-> "nis.hmm path",
     tool |-> "siderophores", hits |-> hits]

\* SiderophorePrediction.identify_pathways: the precursors found.
Precursors(hits) ==
    LET domains == {hits[i] : i \in 1..Len(hits)}
        keys == IF "Citrate_synth" \in domains \/ "Dab-synth" \in domains
                THEN {"Citrate"} ELSE {}
    IN [k \in keys |-> IF "Dab-synth" \in domains
                       THEN SelectSeq(hits, LAMBDA h : h = "Dab-synth")
                       ELSE SelectSeq(hits, LAMBDA h : h = "Citrate_synth")]

SiderophorePrediction(protocluster_nr, scan) ==
    [protocluster_number |-> protocluster_nr, precursors |-> Precursors(scan.hits),
     core |-> <<>>, caveats |-> <<>>]

\* SiderophoreAnalysisResults.from_hmmer_results, with the __init__ it calls.
from_hmmer_results(scan) ==
    [record_id |-> scan.record_id, evalue |-> scan.evalue, score |-> scan.score,
     database |-> "nis.hmm", tool |-> "Siderophores", hits |-> scan.hits]

\* Lines 44-46: the call, with the three locals set up; hmmer_results is
\* not bound yet.
StartAnalysis ==
    /\ pc = "done"
    /\ apc = "idle"
    /\ results_class' \in ResultsClasses
    /\ hmmer_results_list' = <<>>
    /\ predictions' = <<>>
    /\ hmmer_results' = None
    /\ ci' = 0
    /\ apc' = "scan"
    /\ UNCHANGED <<aerr, results>>
    /\ UNCHANGED <<inputs, subregions, protoclusters, missing, warnings, fi, mi, vi, pc,
                   err, errMsg, errArea, result>>

\* Lines 47-61: one iteration of "for cluster in record.get_protoclusters()".
ScanCluster ==
    /\ apc = "scan"
    /\ ci < Len(get_protoclusters)
    /\ LET cluster == get_protoclusters[ci + 1] IN
       IF cluster.product # "NI-siderophore"
       THEN UNCHANGED <<hmmer_results, hmmer_results_list, predictions>>
       ELSE \E hits \in HitLists :
               LET scan == run_hmmer(record, hits) IN
               /\ hmmer_results' = Some(scan)
               /\ hmmer_results_list' = Append(hmmer_results_list, scan)
               /\ predictions' = Append(predictions, SiderophorePrediction(ci + 1, scan))
    /\ ci' = ci + 1
    /\ UNCHANGED <<results_class, apc, aerr, results>>
    /\ UNCHANGED <<inputs, subregions, protoclusters, missing, warnings, fi, mi, vi, pc,
                   err, errMsg, errArea, result>>

\* Lines 63-64: the results are built from the variable the loop last bound.
FinishAnalysis ==
    /\ apc = "scan"
    /\ ci = Len(get_protoclusters)
    /\ IF ~HasFromHmmerResults(results_class)
       THEN /\ apc' = "error"
            /\ aerr' = "AttributeError"
            /\ UNCHANGED results
       ELSE IF hmmer_results = None
       THEN /\ apc' = "error"
            /\ aerr' = "UnboundLocalError"
            /\ UNCHANGED results
       ELSE /\ apc' = "done"
            /\ results' = Some(from_hmmer_results(Get(hmmer_results)))
            /\ UNCHANGED aerr
    /\ UNCHANGED <<results_class, hmmer_results_list, predictions, hmmer_results, ci>>
    /\ UNCHANGED <<inputs, subregions, protoclusters, missing, warnings, fi, mi, vi, pc,
                   err, errMsg, errArea, result>>

NextAnalysis == Next \/ StartAnalysis \/ ScanCluster \/ FinishAnalysis

\* A load followed by the siderophore analysis of the record.
SpecAnalysis == Init /\ [][NextAnalysis]_vars

(***************************************************************************)
(* What the inputs declare, stated independently of the loading loops      *)
(***************************************************************************)
RECURSIVE Concat(_)
Concat(seqs) == IF seqs = <<>> THEN <<>> ELSE Head(seqs) \o Concat(Tail(seqs))

\* The entries of a file that are for the record, in file order.
EntriesFor(file) == SelectSeq(file.records, LAMBDA e : e.name \in record.names)

\* The subregions the files declare for the record: file by file, entry by
\* entry, interval by interval.
DeclaredSubregions(files) ==
    Concat([i \in 1..Len(files) |->
        Concat([j \in 1..Len(EntriesFor(files[i])) |->
            [k \in 1..Len(EntriesFor(files[i])[j].subregions) |->
                LET area == EntriesFor(files[i])[j].subregions[k] IN
                [start |-> area.start, end |-> area.end, label |-> area.label,
                 tool |-> files[i].tool]]])])

DeclaredProtoclusters(files) ==
    Concat([i \in 1..Len(files) |->
        Concat([j \in 1..Len(EntriesFor(files[i])) |->
            [k \in 1..Len(EntriesFor(files[i])[j].protoclusters) |->
                LET area == EntriesFor(files[i])[j].protoclusters[k] IN
                [start |-> area.start, end |-> area.end, product |-> area.product,
                 tool |-> files[i].tool]]])])

SubregionView(seq) ==
    [i \in 1..Len(seq) |-> [start |-> seq[i].start, end |-> seq[i].end,
                            label |-> seq[i].label, tool |-> seq[i].tool]]

ProtoclusterView(seq) ==
    [i \in 1..Len(seq) |-> [start |-> seq[i].start, end |-> seq[i].end,
                            product |-> seq[i].product, tool |-> seq[i].tool]]

Prefix(seq, n) == SubSeq(seq, 1, Min(n, Len(seq)))

EnclosesCds(area) ==
    \E g \in DOMAIN record.cds :
        IF area.circular_origin # None /\ area.end < area.start
        THEN \/ area.start <= record.cds[g].start
             \/ record.cds[g].end <= area.end
        ELSE area.start <= record.cds[g].start /\ record.cds[g].end <= area.end

ManualMatches == manual # None /\ Get(manual).accession \in record.names

FoundMarkers == SelectSeq(cds_markers, LAMBDA n : n \in DOMAIN record.cds)

\* The sources are all loaded, the manual area and the markers are handled.
Collected == pc \in {"validate", "done"} \/ (pc = "error" /\ errArea # None)

Areas(seq) == {seq[i] : i \in 1..Len(seq)}

(***************************************************************************)
(* C1: every sub-region and proto-cluster of a returned result fully       *)
(* encloses a CDS of the record; an interval that encloses none makes the  *)
(* call raise AntismashInputError with nothing returned, and no collected  *)
(* interval is dropped from the result.                                    *)
(***************************************************************************)
C1_ResultAreasEncloseCds ==
    /\ result # None =>
          /\ \A area \in Areas(Get(result).subregions) \cup Areas(Get(result).protoclusters) :
                EnclosesCds(area)
          /\ Len(Get(result).subregions) =
                Len(DeclaredSubregions(annotation_files))
                + (IF ManualMatches THEN 1 ELSE 0) + Len(FoundMarkers)
          /\ Len(Get(result).protoclusters) = Len(DeclaredProtoclusters(annotation_files))
    /\ (Collected /\ \E area \in Areas(subregions) \cup Areas(protoclusters) :
                        ~EnclosesCds(area))
          => result = None /\ pc # "done" /\ (pc = "error" => err = "AntismashInputError")

\* A result is returned that holds a proto-cluster and several sub-regions.
C1_Witness ==
    /\ result # None
    /\ Len(Get(result).protoclusters) >= 1
    /\ Len(Get(result).subregions) >= 2

(***************************************************************************)
(* C2: the sub-regions and the proto-clusters built from the sources are   *)
(* the declared intervals of the record in source-list order, within a     *)
(* source in entry order, within an entry in interval order.               *)
(***************************************************************************)
C2_SourceOrder ==
    /\ pc = "sources" =>
          /\ SubregionView(subregions) = DeclaredSubregions(Prefix(annotation_files, fi))
          /\ ProtoclusterView(protoclusters) =
                DeclaredProtoclusters(Prefix(annotation_files, fi))
    /\ pc \in {"markers", "validate", "done"} =>
          /\ SubregionView(Prefix(subregions, Len(DeclaredSubregions(annotation_files))))
                = DeclaredSubregions(annotation_files)
          /\ ProtoclusterView(protoclusters) = DeclaredProtoclusters(annotation_files)

\* Sources A then G, one sub-region each: the result lists A's, then G's.
C2_Witness ==
    /\ pc = "done"
    /\ annotation_files = <<FileA, FileG>>
    /\ SubregionView(Get(result).subregions) =
          <<[start |-> 0, end |-> RecLen, label |-> "a1", tool |-> "toolA"],
            [start |-> 0, end |-> 1, label |-> "g1", tool |-> "toolG"]>>

\* The number of names among the first n markers that name a CDS of the record.
FoundUpTo(n) == Len(SelectSeq(Prefix(cds_markers, n), LAMBDA m : m \in DOMAIN record.cds))

\* The subregions appended by the marker loop so far: the last ones of the list.
MarkerAreas ==
    SubSeq(subregions, Len(subregions) - FoundUpTo(mi) + 1, Len(subregions))

\* The marker names that name no CDS of the record.
MissingNames == {cds_markers[i] : i \in 1..Len(cds_markers)} \ DOMAIN record.cds

\* The number of subregions the sources and the manual area give.
SubregionsBeforeMarkers ==
    Len(DeclaredSubregions(annotation_files)) + (IF ManualMatches THEN 1 ELSE 0)

\* The entries of a file that are for other records.
OtherEntries(file) == SelectSeq(file.records, LAMBDA e : e.name \notin record.names)

\* A declared interval that cannot be constructed on the record.
InvalidArea(area) == ~record.circular /\ area.start >= area.end

\* The positions of the subregions that carry the manual tool and no label.
ManualAreas ==
    {i \in 1..Len(subregions) : subregions[i].tool = "manual" /\ subregions[i].label = ""}

(***************************************************************************)
(* C3: on a non-circular record every interval produced (from a source     *)
(* file, the manual area or a marker) has 0 <= start < end <= length of    *)
(* the record.  An interval whose construction failed is in no list.       *)
(***************************************************************************)
C3_LinearBounds ==
    ~record.circular =>
        \A area \in Areas(subregions) \cup Areas(protoclusters) :
            0 <= area.start /\ area.start < area.end /\ area.end <= record.len

(***************************************************************************)
(* C4: on a circular record of length L every marker interval has start    *)
(* and end in [0, L), and when the padded window around the CDS reaches    *)
(* below 0 or beyond L the interval has end < start and circular_origin L. *)
(***************************************************************************)
C4_CircularMarkerWrap ==
    record.circular =>
        \A i \in 1..Len(MarkerAreas) :
            LET area == MarkerAreas[i]
                cds == record.cds[area.label]
                raw_start == cds.start - cds_marker_padding
                raw_end == cds.end + cds_marker_padding
            IN /\ area.start \in 0..(record.len - 1)
               /\ area.end \in 0..(record.len - 1)
               /\ (raw_start < 0 \/ raw_end > record.len) =>
                      area.end < area.start /\ area.circular_origin = {record.len}

(***************************************************************************)
(* C5: whenever the load fails, the exception that reaches the caller is   *)
(* an AntismashInputError, and no result is returned.                      *)
(***************************************************************************)
C5_SingleErrorType ==
    pc = "error" => err = "AntismashInputError" /\ result = None

(***************************************************************************)
(* C6: a marker name that the record lacks never aborts the load: all the  *)
(* markers are processed, each found occurrence gives one sub-region, no   *)
(* warning is made inside the loop, and after it exactly one warning is    *)
(* made if some name was missing, listing all the missing names, and none  *)
(* otherwise.                                                              *)
(***************************************************************************)
C6_MissingMarkersCollected ==
    /\ pc = "markers" =>
          /\ warnings = <<>>
          /\ Len(subregions) = SubregionsBeforeMarkers + FoundUpTo(mi)
          /\ missing = {cds_markers[i] : i \in 1..mi} \ DOMAIN record.cds
    /\ ~(pc = "error" /\ mi > 0 /\ errArea = None)
    /\ Collected =>
          /\ mi = Len(cds_markers)
          /\ Len(subregions) = SubregionsBeforeMarkers + Len(FoundMarkers)
          /\ [i \in 1..Len(MarkerAreas) |-> MarkerAreas[i].label] = FoundMarkers
          /\ warnings = IF MissingNames # {} THEN <<MissingNames>> ELSE <<>>

\* A missing name comes first, the marker after it still gives its sub-region,
\* and the one warning lists the missing name.
C6_Witness ==
    /\ pc = "done"
    /\ cds_markers = <<"nope", "geneA">>
    /\ Len(Get(result).subregions) = 1
    /\ warnings = <<{"nope"}>>

(***************************************************************************)
(* C7: an entry of a source for another record contributes no interval and *)
(* raises no error, whatever it holds; the result carries the record's id  *)
(* and holds only intervals of the record's entries, the manual area and   *)
(* the markers.                                                            *)
(***************************************************************************)
C7_OtherRecordsSkipped ==
    /\ result # None => Get(result).record_id = record.id
    /\ \A i \in 1..Len(annotation_files) : \A j \in 1..Len(OtherEntries(annotation_files[i])) :
          LET entry == OtherEntries(annotation_files[i])[j] IN
          /\ \A k \in 1..Len(entry.subregions) : \A area \in Areas(subregions) :
                ~(area.tool = annotation_files[i].tool /\ area.label = entry.subregions[k].label)
          /\ \A k \in 1..Len(entry.protoclusters) : \A area \in Areas(protoclusters) :
                ~(area.tool = annotation_files[i].tool
                  /\ area.start = entry.protoclusters[k].start
                  /\ area.end = entry.protoclusters[k].end)
    /\ \A area \in Areas(subregions) :
          \/ \E d \in Areas(DeclaredSubregions(annotation_files)) :
                d = [start |-> area.start, end |-> area.end, label |-> area.label,
                     tool |-> area.tool]
          \/ area.tool = "manual" /\ area.label = "" /\ ManualMatches
          \/ area.tool = "manual" /\ area.label \in Areas(FoundMarkers)
    /\ \A area \in Areas(protoclusters) :
          \E d \in Areas(DeclaredProtoclusters(annotation_files)) :
              d = [start |-> area.start, end |-> area.end, product |-> area.product,
                   tool |-> area.tool]
    /\ (pc = "error" /\ fi < Len(annotation_files)) =>
          LET file == annotation_files[fi + 1] IN
          \/ ~file.valid
          \/ \E j \in 1..Len(EntriesFor(file)) :
                \/ \E k \in 1..Len(EntriesFor(file)[j].subregions) :
                      InvalidArea(EntriesFor(file)[j].subregions[k])
                \/ \E k \in 1..Len(EntriesFor(file)[j].protoclusters) :
                      InvalidArea(EntriesFor(file)[j].protoclusters[k])

\* A load succeeds on a linear record although the sources hold entries for
\* another record whose intervals have invalid bounds.
C7_Witness ==
    /\ pc = "done"
    /\ ~record.circular
    /\ annotation_files = <<FileF, FileC>>
    /\ Len(Get(result).subregions) = 1
    /\ Len(Get(result).protoclusters) = 1

(***************************************************************************)
(* C8: the manual area gives exactly one sub-region when it is given and   *)
(* its accession is a name of the record, and none otherwise; that         *)
(* sub-region has the given start unchanged, end = min(given end, length   *)
(* of the record), an empty label and the "manual" tool.                   *)
(***************************************************************************)
C8_ManualRegion ==
    (pc \in {"markers", "validate", "done"} \/ errArea # None) =>
        IF manual # None /\ Get(manual).accession \in record.names
        THEN LET n == Len(DeclaredSubregions(annotation_files)) + 1 IN
             /\ ManualAreas = {n}
             /\ subregions[n].start = Get(manual).start
             /\ subregions[n].end = IF Get(manual).end <= record.len
                                    THEN Get(manual).end ELSE record.len
        ELSE ManualAreas = {}

\* A manual area reaching beyond the end of the record is returned, clamped.
C8_Witness ==
    /\ pc = "done"
    /\ manual # None
    /\ Get(manual).end > record.len
    /\ Get(manual).start > 0
    /\ \E area \in Areas(Get(result).subregions) :
          /\ area.tool = "manual" /\ area.label = ""
          /\ area.start = Get(manual).start /\ area.end = record.len

(***************************************************************************)
(* C9: no area is queried before all sources, the manual area and all the  *)
(* markers are handled; the proto-clusters are queried in order, then the  *)
(* sub-regions; the load fails at the first area in that order enclosing   *)
(* no CDS, the error names that area and no later area is queried.  With   *)
(* an empty proto-cluster and an empty sub-region, the error names the     *)
(* proto-cluster.                                                          *)
(***************************************************************************)
C9_ValidationOrder ==
    LET all == protoclusters \o subregions IN
    /\ (vi > 0 \/ errArea # None) =>
          /\ fi = Len(annotation_files)
          /\ mi = Len(cds_markers)
          /\ pc \in {"validate", "done", "error"}
    /\ vi <= Len(all)
    /\ (pc \in {"validate", "done"} \/ errArea # None) =>
          \A i \in 1..vi : EnclosesCds(all[i])
    /\ errArea # None =>
          /\ vi < Len(all)
          /\ all[vi + 1] = Get(errArea)
          /\ ~EnclosesCds(Get(errArea))
          /\ errMsg = "sideloaded area contains no complete CDS features"
          /\ (\E p \in Areas(protoclusters) : ~EnclosesCds(p)) =>
                /\ vi < Len(protoclusters)
                /\ Get(errArea) = protoclusters[vi + 1]

\* The load fails with an empty proto-cluster and an empty sub-region.
C9_Witness ==
    /\ errArea # None
    /\ \E p \in Areas(protoclusters) : ~EnclosesCds(p)
    /\ \E s \in Areas(subregions) : ~EnclosesCds(s)
    /\ "product" \in DOMAIN Get(errArea)

(***************************************************************************)
(* C10: normalising a marker interval again changes nothing: on a circular *)
(* record of length L, (start + L) % L = start and end % L = end with      *)
(* circular_origin L; on a linear one, max(0, start) = start and           *)
(* min(end, L) = end with no circular_origin.                              *)
(***************************************************************************)
C10_NormalizationIdempotent ==
    \A i \in 1..Len(MarkerAreas) :
        LET area == MarkerAreas[i]
            L == record.len
        IN IF record.circular
           THEN /\ (area.start + L) % L = area.start
                /\ area.end % L = area.end
                /\ area.circular_origin = {L}
           ELSE /\ (IF area.start < 0 THEN 0 ELSE area.start) = area.start
                /\ (IF area.end > L THEN L ELSE area.end) = area.end
                /\ area.circular_origin = {}

\* A marker interval on a circular record, from a window that crosses the
\* origin, and one on a linear record, clamped at both ends.
C10_Witness ==
    /\ pc = "done"
    /\ cds_marker_padding \in 1..RecLen
    /\ \E i \in 1..Len(MarkerAreas) :
          \/ record.circular /\ MarkerAreas[i].end < MarkerAreas[i].start
          \/ ~record.circular /\ MarkerAreas[i].start = 0 /\ MarkerAreas[i].end = RecLen
                /\ record.cds[MarkerAreas[i].label].start > 0

\* The canonical form of an interval: its bounds and its origin.
Canonical(area) == <<area.start, area.end, area.circular_origin>>

\* The marker path applied to raw bounds: the window of lines 79-88 with no
\* padding added.
MarkerPath(raw) == MarkerSubregion(raw, "", 0, record)

\* The manual path applied to raw bounds.
ManualPath(raw) == ManualSubregion(raw, record, circular_origin)

(***************************************************************************)
(* C11: for the same raw (start, end) on the same record, the source-file  *)
(* path, the manual path and the marker path give the same canonical       *)
(* start, end and circular_origin: every interval a source or the manual   *)
(* area has produced is what the other paths make of its raw bounds.       *)
(***************************************************************************)
C11_SameNormalization ==
    (pc \in {"markers", "validate", "done"} \/ errArea # None) =>
        /\ \A i \in 1..Len(DeclaredSubregions(annotation_files)) :
              LET raw == DeclaredSubregions(annotation_files)[i] IN
              /\ Canonical(subregions[i]) = Canonical(MarkerPath(raw))
              /\ Canonical(subregions[i]) = Canonical(ManualPath(raw))
        /\ \A i \in ManualAreas :
              Canonical(subregions[i]) = Canonical(MarkerPath(Get(manual)))

(***************************************************************************)
(* C12: every interval of a load carries a circular_origin that is absent  *)
(* on a non-circular record and equal to the record's length on a circular *)
(* one, whether it comes from a source, the manual area or a marker.       *)
(***************************************************************************)
C12_CircularOrigin ==
    \A area \in Areas(subregions) \cup Areas(protoclusters) :
        /\ area.circular_origin \in {{}, {record.len}}
        /\ (area.circular_origin # {}) <=> record.circular

\* A result on a circular record holding a proto-cluster, a source
\* sub-region, the manual sub-region and a marker sub-region.
C12_Witness ==
    /\ pc = "done"
    /\ record.circular
    /\ Len(Get(result).protoclusters) >= 1
    /\ Len(DeclaredSubregions(annotation_files)) >= 1
    /\ ManualAreas # {}
    /\ Len(MarkerAreas) >= 1

(***************************************************************************)
(* C13: the sub-regions are the source-file sub-regions, then the manual   *)
(* sub-region (if any), then one sub-region per found marker in the order  *)
(* of the marker list, each labelled with its marker's name, a repeated    *)
(* name giving one per occurrence; the proto-clusters are those of the     *)
(* source files and no others; the result holds these two sequences.       *)
(***************************************************************************)
C13_SubregionOrder ==
    /\ (pc \in {"validate", "done"} \/ errArea # None) =>
          LET n == Len(DeclaredSubregions(annotation_files))
              m == IF manual # None /\ Get(manual).accession \in record.names
                   THEN 1 ELSE 0
          IN /\ Len(subregions) = n + m + Len(FoundMarkers)
             /\ SubregionView(SubSeq(subregions, 1, n)) = DeclaredSubregions(annotation_files)
             /\ m = 1 => /\ subregions[n + 1].tool = "manual"
                         /\ subregions[n + 1].label = ""
                         /\ subregions[n + 1].start = Get(manual).start
             /\ \A k \in 1..Len(FoundMarkers) :
                   /\ subregions[n + m + k].label = FoundMarkers[k]
                   /\ subregions[n + m + k].tool = "manual"
             /\ ProtoclusterView(protoclusters) = DeclaredProtoclusters(annotation_files)
    /\ result # None =>
          /\ Get(result).subregions = subregions
          /\ Get(result).protoclusters = protoclusters

\* A result built from a source, the manual area and two markers.
C13_Witness ==
    /\ pc = "done"
    /\ Len(DeclaredSubregions(annotation_files)) >= 1
    /\ manual # None
    /\ cds_markers = <<"geneB", "geneA">>
    /\ Len(Get(result).subregions) = Len(DeclaredSubregions(annotation_files)) + 3

\* The numbers of the proto-clusters whose product is "NI-siderophore".
SiderophoreClusters ==
    {i \in 1..Len(protoclusters) : protoclusters[i].product = "NI-siderophore"}

(***************************************************************************)
(* C14: for every record run_siderophore_analysis scans exactly the        *)
(* proto-clusters whose product is "NI-siderophore" and returns a          *)
(* populated SiderophoreAnalysisResults, also when the record has no       *)
(* proto-cluster of that product.                                          *)
(***************************************************************************)
C14_AnalysisReturnsResults ==
    apc \in {"done", "error"} =>
        /\ {predictions[i].protocluster_number : i \in 1..Len(predictions)}
              = SiderophoreClusters
        /\ Len(hmmer_results_list) = Cardinality(SiderophoreClusters)
        /\ apc = "done"
        /\ results # None
        /\ Get(results).record_id = record.id

====
